---- MODULE Spec2Model ----
(***************************************************************************)
(* Code Mosaic visualizer: the trace parser (CodeParser) and the spiral    *)
(* placement / building life cycle of CodeVisualizer.                      *)
(*                                                                         *)
(* Texts are TLA+ strings, read character by character with SubSeq.        *)
(* Lengths are integers in units of 1/10000 scene unit, angles in tenths   *)
(* of a radian, cosines and sines in thousandths.                          *)
(***************************************************************************)
EXTENDS Integers, Sequences, FiniteSets, TLC

VARIABLES
    input,           \* argument of the latest parse / visualize / createSpiralPath call
    ret,             \* what the latest call returned ([op |-> "none"] before any call)
    executionTrace,  \* CodeParser.executionTrace
    buildings,       \* CodeVisualizer.buildings: list of references into heap
    heap,            \* every building object ever created, by reference
    live,            \* references whose mesh and cap are not disposed, and live path tubes
    spiralPath,      \* CodeVisualizer.spiralPath (<<>> models null)
    timers,          \* pending setTimeout callbacks of visualize
    closures,        \* per visualize call, the locals its callbacks capture:
                     \* trace, pathPoints, currentCallHeight
    nCalls,          \* number of visualize calls made so far
    cameraTarget,    \* y of camera.target
    stats,           \* step count shown by updateStats ("" before any)
    isAnimating,     \* CodeVisualizer.isAnimating
    animationsEnabled, \* scene.animationsEnabled
    nToggles,        \* number of toggleAnimation calls made so far
    cameraPosition,  \* camera.position
    toggleText       \* text of the toggle button, as set by its click handler

\* the animation switch, the camera position and the toggle button
controls == <<isAnimating, animationsEnabled, nToggles, cameraPosition, toggleText>>

vars == <<input, ret, executionTrace, buildings, heap, live, spiralPath,
          timers, closures, nCalls, cameraTarget, stats, controls>>

(***************************************************************************)
(* Bounds of the model.                                                    *)
(***************************************************************************)
MaxTextLen == 5       \* longest text of the exhaustive parser inputs
MaxSpiralSteps == 60  \* longest spiral of the createSpiralPath inputs
MaxCalls == 2         \* visualize calls in one behaviour
MaxVisSteps == 3      \* most lines of a text given to visualize
MaxToggles == 2       \* clicks on the toggle button
RandDen == 2          \* Math.random() is drawn from {0/RandDen .. (RandDen-1)/RandDen}

(***************************************************************************)
(* JavaScript values.                                                      *)
(***************************************************************************)
Undefined == [t |-> "undefined"]
JStr(s) == [t |-> "string", s |-> s]
NaN == [nan |-> TRUE]
Num(v) == [num |-> v]

Ch(s, i) == SubSeq(s, i, i)

\* WhiteSpace and LineTerminator of ECMAScript, which trim() and parseInt
\* strip: space, TAB, LF, CR, FF, and written as the characters themselves
\* VT (U+000B), NBSP (U+00A0), U+1680 and ZWNBSP (U+FEFF).  The remaining
\* ones (U+2000..U+200A, U+2028, U+2029, U+202F, U+205F, U+3000) cannot be
\* written in a string of this language, so no text of the model holds them.
WhiteSpace == {" ", "\t", "\n", "\r", "\f", "", " ", " ", "﻿"}

\* String.prototype.trimStart / trimEnd / trim
RECURSIVE FirstNonWs(_, _)
FirstNonWs(s, i) ==
    IF i > Len(s) \/ Ch(s, i) \notin WhiteSpace THEN i ELSE FirstNonWs(s, i + 1)

RECURSIVE LastNonWs(_, _)
LastNonWs(s, i) ==
    IF i < 1 \/ Ch(s, i) \notin WhiteSpace THEN i ELSE LastNonWs(s, i - 1)

TrimStart(s) == SubSeq(s, FirstNonWs(s, 1), Len(s))

TrimEndOnly(s) == SubSeq(s, 1, LastNonWs(s, Len(s)))

Trim(s) == SubSeq(s, FirstNonWs(s, 1), LastNonWs(s, Len(s)))

\* String.prototype.split(sep) for a one-character separator: always at
\* least one piece, "" splits to <<"">>.
RECURSIVE SplitFrom(_, _, _)
SplitFrom(s, sep, start) ==
    LET seps == {i \in start..Len(s) : Ch(s, i) = sep}
    IN IF seps = {} THEN <<SubSeq(s, start, Len(s))>>
       ELSE LET n == CHOOSE i \in seps : \A j \in seps : i <= j
            IN <<SubSeq(s, start, n - 1)>> \o SplitFrom(s, sep, n + 1)

Split(s, sep) == SplitFrom(s, sep, 1)

\* parts[k] of a JavaScript array (0-based): undefined past the end
At(parts, k) == IF k < Len(parts) THEN JStr(parts[k + 1]) ELSE Undefined

\* ToString of a string-or-undefined value
JsToString(v) == IF v = Undefined THEN "undefined" ELSE v.s

\* value of a digit character, 99 for any other character
DigitOf(c) ==
    CASE c = "0" -> 0 [] c = "1" -> 1 [] c = "2" -> 2 [] c = "3" -> 3
      [] c = "4" -> 4 [] c = "5" -> 5 [] c = "6" -> 6 [] c = "7" -> 7
      [] c = "8" -> 8 [] c = "9" -> 9
      [] c \in {"a", "A"} -> 10 [] c \in {"b", "B"} -> 11
      [] c \in {"c", "C"} -> 12 [] c \in {"d", "D"} -> 13
      [] c \in {"e", "E"} -> 14 [] c \in {"f", "F"} -> 15
      [] OTHER -> 99

\* the longest prefix of radix-R digits of s from position i, as [n, v]:
\* n digits read, v their value
RECURSIVE ReadDigits(_, _, _, _, _)
ReadDigits(s, i, R, n, v) ==
    IF i > Len(s) \/ DigitOf(Ch(s, i)) >= R THEN [n |-> n, v |-> v]
    ELSE ReadDigits(s, i + 1, R, n + 1, v * R + DigitOf(Ch(s, i)))

ParseIntStrict(v) ==
    LET S == TrimStart(JsToString(v))
        d == ReadDigits(S, 1, 10, 0, 0)
    IN IF d.n = 0 \/ d.n # Len(S) THEN NaN ELSE Num(d.v)

\* parseInt(v) with no radix argument (ECMAScript 19.2.5)
ParseInt(v) ==
    LET S == TrimStart(JsToString(v))
        neg == Len(S) > 0 /\ Ch(S, 1) = "-"
        S1 == IF Len(S) > 0 /\ Ch(S, 1) \in {"-", "+"} THEN SubSeq(S, 2, Len(S)) ELSE S
        hex == Len(S1) >= 2 /\ SubSeq(S1, 1, 2) \in {"0x", "0X"}
        S2 == IF hex THEN SubSeq(S1, 3, Len(S1)) ELSE S1
        d == ReadDigits(S2, 1, IF hex THEN 16 ELSE 10, 0, 0)
    IN IF d.n = 0 THEN NaN ELSE Num(IF neg THEN 0 - d.v ELSE d.v)

\* x || 0 for a number x: NaN and 0 are falsy
OrZero(x) == IF x = NaN \/ x = Num(0) THEN 0 ELSE x.num

MakeStepOffByOne(line, index) ==
    LET parts == Split(line, "|")
    IN [step |-> index,
        type |-> JsToString(At(parts, 1)),
        name |-> At(parts, 2),
        value |-> At(parts, 3),
        address |-> At(parts, 4),
        line |-> OrZero(ParseInt(At(parts, 5))),
        depth |-> OrZero(ParseInt(At(parts, 6))),
        raw |-> line]

\* the object literal of the lines.map callback
MakeStep(line, index) ==
    LET parts == Split(line, "|")
    IN [step |-> index,
        type |-> parts[1],
        name |-> At(parts, 1),
        value |-> At(parts, 2),
        address |-> At(parts, 3),
        line |-> OrZero(ParseInt(At(parts, 4))),
        depth |-> OrZero(ParseInt(At(parts, 5))),
        raw |-> line]

\* CodeParser.parse
Parse(codeTrace) ==
    LET lines == Split(Trim(codeTrace), "\n")
    IN [k \in 1..Len(lines) |-> MakeStep(lines[k], k - 1)]

\* CodeParser.getExampleTrace
GetExampleTrace ==
       "CALL|main|||1\n" \o
       "DECL|sum|0|00000049923FF88C|2|1\n" \o
       "LOOP|iter|3|1\n" \o
       "DECL|i|0|00000049923FF888|3|1\n" \o
       "ASSIGN|sum|0|00000049923FF88C|4|1\n" \o
       "LOOP|iter|3|1\n" \o
       "DECL|i|1|00000049923FF888|3|1\n" \o
       "ASSIGN|sum|1|00000049923FF88C|4|1\n" \o
       "LOOP|iter|3|1\n" \o
       "DECL|i|2|00000049923FF888|3|1\n" \o
       "ASSIGN|sum|3|00000049923FF88C|4|1\n" \o
       "LOOP|iter|3|1\n" \o
       "DECL|i|3|00000049923FF888|3|1\n" \o
       "ASSIGN|sum|6|00000049923FF88C|4|1\n" \o
       "LOOP|iter|3|1\n" \o
       "DECL|i|4|00000049923FF888|3|1\n" \o
       "ASSIGN|sum|10|00000049923FF88C|4|1\n" \o
       "RETURN|literal|0|0|7|1"

(***************************************************************************)
(* Math.cos and Math.sin on the grid of tenths of a radian, in             *)
(* thousandths, for angles 0 .. 24 rad.                                    *)
(***************************************************************************)
CosTable ==
    <<
       1000, 995, 980, 955, 921, 878, 825, 765, 697, 622, 540, 454,
       362, 267, 170, 71, -29, -129, -227, -323, -416, -505, -589, -666,
       -737, -801, -857, -904, -942, -971, -990, -999, -998, -987, -967, -936,
       -897, -848, -791, -726, -654, -575, -490, -401, -307, -211, -112, -12,
       87, 187, 284, 378, 469, 554, 635, 709, 776, 835, 886, 927,
       960, 983, 997, 1000, 993, 977, 950, 914, 869, 816, 754, 685,
       608, 526, 439, 347, 251, 153, 54, -46, -146, -244, -339, -431,
       -519, -602, -679, -749, -811, -865, -911, -948, -975, -992, -1000, -997,
       -985, -962, -930, -889, -839, -781, -714, -641, -561, -476, -385, -291,
       -194, -95, 4, 104, 203, 300, 393, 483, 568, 648, 720, 786,
       844, 893, 934, 965, 986, 998, 999, 991, 973, 945, 907, 861,
       806, 743, 672, 595, 512, 423, 331, 235, 137, 37, -63, -162,
       -260, -355, -446, -534, -615, -691, -760, -821, -874, -918, -953, -978,
       -994, -1000, -996, -982, -958, -924, -881, -830, -770, -702, -628, -547,
       -461, -370, -275, -178, -79, 21, 121, 219, 316, 409, 498, 582,
       660, 732, 796, 853, 901, 940, 969, 989, 999, 999, 989, 969,
       939, 900, 852, 796, 731, 660, 581, 497, 408, 315, 219, 120,
       20, -80, -179, -276, -371, -461, -548, -629, -703, -771, -830, -882,
       -924, -958, -982, -996, -1000, -994, -978, -953, -918, -873, -820, -759,
       -690, -615, -533, -446, -354, -259, -161, -62, 38, 138, 236, 332,
       424
    >>

SinTable ==
    <<
       0, 100, 199, 296, 389, 479, 565, 644, 717, 783, 841, 891,
       932, 964, 985, 997, 1000, 992, 974, 946, 909, 863, 808, 746,
       675, 598, 516, 427, 335, 239, 141, 42, -58, -158, -256, -351,
       -443, -530, -612, -688, -757, -818, -872, -916, -952, -978, -994, -1000,
       -996, -982, -959, -926, -883, -832, -773, -706, -631, -551, -465, -374,
       -279, -182, -83, 17, 117, 215, 312, 405, 494, 578, 657, 729,
       794, 850, 899, 938, 968, 988, 999, 999, 989, 970, 941, 902,
       855, 798, 734, 663, 585, 501, 412, 319, 223, 124, 25, -75,
       -174, -272, -366, -458, -544, -625, -700, -768, -828, -880, -923, -957,
       -981, -995, -1000, -995, -979, -954, -919, -875, -823, -762, -694, -618,
       -537, -450, -358, -263, -166, -66, 34, 133, 232, 327, 420, 509,
       592, 670, 740, 804, 859, 906, 944, 972, 991, 999, 998, 987,
       966, 935, 895, 846, 788, 723, 650, 571, 486, 397, 303, 206,
       108, 8, -92, -191, -288, -382, -472, -558, -638, -712, -778, -837,
       -888, -929, -961, -984, -997, -1000, -993, -976, -949, -913, -867, -813,
       -751, -681, -605, -522, -435, -342, -247, -149, -50, 50, 150, 248,
       343, 435, 523, 606, 682, 752, 814, 868, 913, 949, 976, 993,
       1000, 997, 984, 961, 929, 887, 837, 778, 711, 637, 557, 472,
       381, 287, 190, 91, -9, -109, -207, -304, -398, -487, -572, -651,
       -723, -789, -846, -895, -935, -966, -987, -998, -999, -990, -972, -943,
       -906
    >>

CosMilli(a) == CosTable[a + 1]
SinMilli(a) == SinTable[a + 1]

(***************************************************************************)
(* Lookup tables of the parser and the visualizer.                         *)
(***************************************************************************)
\* property names every object literal inherits from Object.prototype
ObjectPrototypeKeys ==
    {"constructor", "toString", "toLocaleString", "valueOf", "hasOwnProperty",
     "isPrototypeOf", "propertyIsEnumerable", "__proto__", "__defineGetter__",
     "__defineSetter__", "__lookupGetter__", "__lookupSetter__"}

\* obj[key] for an object literal: an own property, else a property
\* inherited from Object.prototype, else undefined
GetProperty(obj, key) ==
    IF key \in DOMAIN obj THEN obj[key]
    ELSE IF key \in ObjectPrototypeKeys THEN [inherited |-> key]
    ELSE Undefined

\* v || d for an object-or-undefined v: every object is truthy
OrDefault(v, d) == IF v = Undefined THEN d ELSE v

\* the colors table of getColorForType, channels in tenths
Colors ==
    "CALL" :> [r |-> 8, g |-> 2, b |-> 2, a |-> 8] @@
    "DECL" :> [r |-> 2, g |-> 4, b |-> 8, a |-> 8] @@
    "LOOP" :> [r |-> 6, g |-> 2, b |-> 8, a |-> 8] @@
    "ASSIGN" :> [r |-> 2, g |-> 8, b |-> 4, a |-> 8] @@
    "RETURN" :> [r |-> 9, g |-> 7, b |-> 1, a |-> 8] @@
    "IF" :> [r |-> 9, g |-> 4, b |-> 2, a |-> 8] @@
    "ELSE" :> [r |-> 4, g |-> 7, b |-> 9, a |-> 8] @@
    "DEFAULT" :> [r |-> 7, g |-> 7, b |-> 7, a |-> 8]

\* CodeParser.getColorForType
GetColorForType(type) == OrDefault(GetProperty(Colors, type), Colors["DEFAULT"])

\* the profiles table of getShapeProfile
Profiles ==
    "CALL" :> [heightMin |-> 40000, heightMax |-> 55000,
                  topWidthMin |-> 6000, topWidthMax |-> 8000,
                  bottomWidthMin |-> 18000, bottomWidthMax |-> 24000,
                  depthMin |-> 14000, depthMax |-> 18000, shape |-> "trapezoidTower"] @@
    "RETURN" :> [heightMin |-> 30000, heightMax |-> 40000,
                  topWidthMin |-> 8000, topWidthMax |-> 10000,
                  bottomWidthMin |-> 12000, bottomWidthMax |-> 16000,
                  depthMin |-> 10000, depthMax |-> 14000, shape |-> "invertedTrapezoid"] @@
    "LOOP" :> [heightMin |-> 25000, heightMax |-> 35000,
                  topWidthMin |-> 5000, topWidthMax |-> 7000,
                  bottomWidthMin |-> 14000, bottomWidthMax |-> 18000,
                  depthMin |-> 12000, depthMax |-> 15000, shape |-> "trapezoidWide"] @@
    "IF" :> [heightMin |-> 20000, heightMax |-> 30000,
                  topWidthMin |-> 4000, topWidthMax |-> 6000,
                  bottomWidthMin |-> 10000, bottomWidthMax |-> 14000,
                  depthMin |-> 8000, depthMax |-> 12000, shape |-> "trapezoidAngled"] @@
    "ELSE" :> [heightMin |-> 18000, heightMax |-> 28000,
                  topWidthMin |-> 4000, topWidthMax |-> 6000,
                  bottomWidthMin |-> 10000, bottomWidthMax |-> 14000,
                  depthMin |-> 8000, depthMax |-> 12000, shape |-> "trapezoidAngled"] @@
    "DECL" :> [heightMin |-> 15000, heightMax |-> 25000,
                  topWidthMin |-> 5000, topWidthMax |-> 7000,
                  bottomWidthMin |-> 8000, bottomWidthMax |-> 12000,
                  depthMin |-> 7000, depthMax |-> 10000, shape |-> "trapezoidSlim"] @@
    "ASSIGN" :> [heightMin |-> 10000, heightMax |-> 18000,
                  topWidthMin |-> 3000, topWidthMax |-> 5000,
                  bottomWidthMin |-> 6000, bottomWidthMax |-> 10000,
                  depthMin |-> 5000, depthMax |-> 8000, shape |-> "trapezoidSmall"] @@
    "DEFAULT" :> [heightMin |-> 12000, heightMax |-> 20000,
                  topWidthMin |-> 4000, topWidthMax |-> 6000,
                  bottomWidthMin |-> 8000, bottomWidthMax |-> 12000,
                  depthMin |-> 6000, depthMax |-> 9000, shape |-> "trapezoidSlim"]

\* CodeVisualizer.getShapeProfile
GetShapeProfile(type) == OrDefault(GetProperty(Profiles, type), Profiles["DEFAULT"])

\* profile.f as a number: undefined (NaN in arithmetic) when the profile
\* object has no such property
ProfileNum(profile, f) == IF f \in DOMAIN profile THEN Num(profile[f]) ELSE NaN

\* CodeVisualizer._rand with Math.random() = u / RandDen
Rand(min, max, u) ==
    IF min = NaN \/ max = NaN THEN NaN
    ELSE Num(min.num + (u * (max.num - min.num)) \div RandDen)

\* h of createTrapezoidMesh, kept as mesh._trapHeight
TrapHeight(profile, u) ==
    Rand(ProfileNum(profile, "heightMin"), ProfileNum(profile, "heightMax"), u)

\* d * (tw / bw) of createTrapezoidMesh, cut to 1/10000 (every bottom
\* width of the profiles table is positive)
ScaleDepth(d, tw, bw) ==
    IF d = NaN \/ tw = NaN \/ bw = NaN THEN NaN
    ELSE Num((d.num * tw.num) \div bw.num)

\* CodeVisualizer.createTrapezoidMesh with the four Math.random() draws
\* uh / RandDen, utw / RandDen, ubw / RandDen, ud / RandDen, in call order:
\* the sizes kept on the mesh (_trapHeight, _trapTopWidth, _trapBottomWidth)
\* and the depths of its top and bottom faces
CreateTrapezoidMesh(profile, uh, utw, ubw, ud) ==
    LET h == TrapHeight(profile, uh)
        tw == Rand(ProfileNum(profile, "topWidthMin"), ProfileNum(profile, "topWidthMax"), utw)
        bw == Rand(ProfileNum(profile, "bottomWidthMin"), ProfileNum(profile, "bottomWidthMax"), ubw)
        d == Rand(ProfileNum(profile, "depthMin"), ProfileNum(profile, "depthMax"), ud)
        inverted == "shape" \in DOMAIN profile /\ profile["shape"] = "invertedTrapezoid"
    IN IF inverted
       THEN [trapHeight |-> h, trapTopWidth |-> bw, trapBottomWidth |-> tw,
             topD |-> d, botD |-> ScaleDepth(d, tw, bw)]
       ELSE [trapHeight |-> h, trapTopWidth |-> tw, trapBottomWidth |-> bw,
             topD |-> ScaleDepth(d, tw, bw), botD |-> d]

(***************************************************************************)
(* The spiral.                                                             *)
(***************************************************************************)
SpiralRadius == 20000    \* radius = 2
RadiusGrowth == 3000     \* radiusGrowth = 0.3
HeightPerStep == 5000    \* heightPerStep = 0.5
TurnsPerStep == 3        \* turnsPerStep = 0.3 rad

SpiralPointNoGrowth(i, totalHeight) ==
    LET angle == i * TurnsPerStep
        currentRadius == SpiralRadius + RadiusGrowth
    IN [x |-> (CosMilli(angle) * currentRadius) \div 1000,
        y |-> totalHeight - (i * HeightPerStep),
        z |-> (SinMilli(angle) * currentRadius) \div 1000]

\* one iteration of the for loop of createSpiralPath: the point pushed
SpiralPoint(i, totalHeight) ==
    LET angle == i * TurnsPerStep
        currentRadius == SpiralRadius + (i * RadiusGrowth)
    IN [x |-> (CosMilli(angle) * currentRadius) \div 1000,
        y |-> totalHeight - (i * HeightPerStep),
        z |-> (SinMilli(angle) * currentRadius) \div 1000]

\* the for loop of createSpiralPath, from index i with the points pushed so far
RECURSIVE SpiralLoop(_, _, _, _)
SpiralLoop(i, steps, totalHeight, points) ==
    IF i < steps
    THEN SpiralLoop(i + 1, steps, totalHeight, Append(points, SpiralPoint(i, totalHeight)))
    ELSE points

CreateSpiralPathTall(steps) ==
    SpiralLoop(0, steps, steps * HeightPerStep, <<>>)

\* CodeVisualizer.createSpiralPath: the points (also kept as this.spiralPath)
CreateSpiralPath(steps) ==
    SpiralLoop(0, steps, (steps - 1) * HeightPerStep, <<>>)

(***************************************************************************)
(* Buildings.                                                              *)
(***************************************************************************)
CapHeight == 1500        \* capHeight = 0.15
StaggerMs == 100         \* setTimeout delay per step index

\* parentY * 0.3
StackOffset(parentY) == (parentY * 3) \div 10

AddNum(x, k) == IF x = NaN THEN NaN ELSE Num(x.num + k)

CreateBuildingStackAlways(step, position, color, type, parentY, u) ==
    LET profile == GetShapeProfile(type)
        h == TrapHeight(profile, u)
        stacked == parentY > 0
        y == IF stacked THEN position.y + StackOffset(parentY) ELSE position.y
        capY0 == AddNum(h, y + CapHeight \div 2)
        capY == IF stacked THEN AddNum(capY0, StackOffset(parentY)) ELSE capY0
    IN [obj |-> [data |-> step, type |-> type, height |-> h,
                 pos |-> [x |-> position.x, y |-> y, z |-> position.z],
                 capY |-> capY, color |-> color],
        builtHeight |-> h]

\* CodeVisualizer.createBuilding with Math.random() = u / RandDen for the
\* height: the object pushed onto this.buildings (mesh position, cap
\* position, data, type, height, material colour) and the value returned.
\* Mesh widths, rotation, vertex data and animations are render-only.
CreateBuilding(step, position, color, type, parentY, u) ==
    LET profile == GetShapeProfile(type)
        h == TrapHeight(profile, u)
        stacked == type # "CALL" /\ parentY > 0
        y == IF stacked THEN position.y + StackOffset(parentY) ELSE position.y
        capY0 == AddNum(h, y + CapHeight \div 2)
        capY == IF stacked THEN AddNum(capY0, StackOffset(parentY)) ELSE capY0
    IN [obj |-> [data |-> step, type |-> type, height |-> h,
                 pos |-> [x |-> position.x, y |-> y, z |-> position.z],
                 capY |-> capY, color |-> color],
        builtHeight |-> h]

Range(s) == {s[k] : k \in 1..Len(s)}

\* reference of the path tube created by the c-th visualize call
PathRef(c) == <<c, -1>>

\* scene.getMeshByName("spiralPath"): the first live tube, if any
FirstTube(l) ==
    LET tubes == {r \in l : r[2] = -1}
    IN {r \in tubes : \A q \in tubes : r[1] <= q[1]}

(***************************************************************************)
(* Inputs.                                                                 *)
(***************************************************************************)
RECURSIVE Strings(_, _)
Strings(alphabet, n) ==
    IF n = 0 THEN {""}
    ELSE LET shorter == Strings(alphabet, n - 1)
         IN shorter \cup {s \o c : s \in shorter, c \in alphabet}

RECURSIVE Join(_, _)
Join(parts, sep) ==
    IF Len(parts) = 0 THEN ""
    ELSE IF Len(parts) = 1 THEN parts[1]
    ELSE parts[1] \o sep \o Join(Tail(parts), sep)

\* every text of at most MaxTextLen characters over a small alphabet
ShortTexts == Strings({"A", "|", "\n", " ", "1"}, MaxTextLen)

\* texts of the line and depth fields
NumFields == {"", "0", "7", "12", "x", "x1", "1x", "12abc", "-3", " 4", "3.5", "0x1f",
              "12"}

\* texts with the whitespace characters other than space and line feed
\* (VT, NBSP, TAB, CR, FF, ZWNBSP, U+1680) at their ends and inside
OddSpaceTexts == {"A|b", " A|b﻿", "\tA\r", "\fA|b|c|d|7| 1 ", "A B|b\n"}

\* one-line texts with 1 to 7 fields
FieldLines ==
    {Join(SubSeq(<<"CALL", "main", "0", "00FF", l, d, "extra">>, 1, k), "|") :
        k \in 1..7, l \in NumFields, d \in NumFields}

ParseInputs == ShortTexts \cup FieldLines \cup OddSpaceTexts \cup {GetExampleTrace}

\* the lines of the texts given to visualize
VisLines == {"CALL|main|||1", "DECL|x|0|00FF|2|1"}

RECURSIVE LineSeqs(_)
LineSeqs(n) ==
    IF n = 0 THEN {<<>>}
    ELSE LET shorter == LineSeqs(n - 1)
         IN shorter \cup {Append(s, l) : s \in shorter, l \in VisLines}

VisTexts == {Join(s, "\n") : s \in LineSeqs(MaxVisSteps) \ {<<>>}} \cup {"", "zz|y", "constructor"}

(***************************************************************************)
(* The state machine.                                                      *)
(***************************************************************************)
\* isAnimating = true in the constructor; a new scene has animations
\* enabled; the ArcRotateCamera of init() sits at alpha = pi/2, beta = pi/4,
\* radius = 60 around the target (0, 10, 0); the button label is not set
\* until its first click
InitControls ==
    /\ isAnimating = TRUE
    /\ animationsEnabled = TRUE
    /\ nToggles = 0
    /\ cameraPosition = [x |-> 0, y |-> 524264, z |-> 424264]
    /\ toggleText = ""

\* the state after new CodeVisualizer(canvas) and init()
Init ==
    /\ input = ""
    /\ ret = [op |-> "none"]
    /\ executionTrace = <<>>
    /\ buildings = <<>>
    /\ heap = <<>>
    /\ live = {}
    /\ spiralPath = <<>>
    /\ timers = {}
    /\ closures = <<>>
    /\ nCalls = 0
    /\ cameraTarget = 100000
    /\ stats = ""
    /\ InitControls

\* CodeVisualizer.visualize(codeTrace), the c-th call
Visualize(codeTrace) ==
    /\ nCalls < MaxCalls
    /\ LET c == nCalls + 1
           trace == Parse(codeTrace)
           pathPoints == CreateSpiralPath(Len(trace))
           oldTube == IF spiralPath # <<>> THEN FirstTube(live) ELSE {}
       IN /\ input' = codeTrace
          /\ ret' = [op |-> "visualize"]
          /\ live' = (live \ (Range(buildings) \cup oldTube)) \cup {PathRef(c)}
          /\ buildings' = <<>>
          /\ executionTrace' = trace
          /\ spiralPath' = pathPoints
          /\ closures' = Append(closures, [trace |-> trace, pathPoints |-> pathPoints,
                                            currentCallHeight |-> 0])
          /\ timers' = timers \cup
                {[call |-> c, index |-> k - 1, due |-> (k - 1) * StaggerMs,
                  position |-> pathPoints[k],
                  color |-> GetColorForType(trace[k].type),
                  type |-> trace[k].type] : k \in 1..Len(trace)}
          /\ nCalls' = c
          /\ cameraTarget' = ((Len(trace) - 1) * HeightPerStep) \div 2
          /\ stats' = Len(trace)
    /\ UNCHANGED <<heap, controls>>

\* the timer the event loop runs next: due, and the earliest set among those due
NextTimer(t) ==
    /\ t.due = 0
    /\ \A o \in timers : o.due = 0 =>
          (t.call < o.call \/ (t.call = o.call /\ t.index <= o.index))

\* one setTimeout callback of visualize runs
Fire ==
    \E t \in timers, u \in 0..(RandDen - 1) :
        /\ NextTimer(t)
        /\ LET made == CreateBuilding(t.index, t.position, t.color, t.type,
                                      closures[t.call].currentCallHeight, u)
               ref == <<t.call, t.index>>
           IN /\ heap' = heap @@ (ref :> made.obj)
              /\ buildings' = Append(buildings, ref)
              /\ live' = live \cup {ref}
              /\ closures' = IF t.type = "CALL"
                             THEN [closures EXCEPT ![t.call].currentCallHeight =
                                                        made.builtHeight.num]
                             ELSE closures
        /\ timers' = timers \ {t}
        /\ UNCHANGED <<input, ret, executionTrace, spiralPath, nCalls, cameraTarget, stats,
                       controls>>

\* StaggerMs pass with no callback due
Tick ==
    /\ timers # {}
    /\ \A t \in timers : t.due > 0
    /\ timers' = {[t EXCEPT !.due = @ - StaggerMs] : t \in timers}
    /\ UNCHANGED <<input, ret, executionTrace, buildings, heap, live, spiralPath,
                   closures, nCalls, cameraTarget, stats, controls>>

ToggleAnimationEnableOnly ==
    /\ nToggles < MaxToggles
    /\ isAnimating' = ~isAnimating
    /\ animationsEnabled' = TRUE
    /\ nToggles' = nToggles + 1
    /\ ret' = [op |-> "toggleAnimation", val |-> isAnimating']
    /\ toggleText' = IF isAnimating' THEN "Pause Animation" ELSE "Resume Animation"
    /\ UNCHANGED <<input, executionTrace, buildings, heap, live, spiralPath, timers,
                   closures, nCalls, cameraTarget, stats, cameraPosition>>

\* a click on the toggle button: CodeVisualizer.toggleAnimation() and the
\* handler's label update from the value it returned
ToggleAnimation ==
    /\ nToggles < MaxToggles
    /\ isAnimating' = ~isAnimating
    /\ animationsEnabled' = IF isAnimating' THEN TRUE ELSE FALSE
    /\ nToggles' = nToggles + 1
    /\ ret' = [op |-> "toggleAnimation", val |-> isAnimating']
    /\ toggleText' = IF ret'.val THEN "Pause Animation" ELSE "Resume Animation"
    /\ UNCHANGED <<input, executionTrace, buildings, heap, live, spiralPath, timers,
                   closures, nCalls, cameraTarget, stats, cameraPosition>>

\* a click on the reset button: CodeVisualizer.resetCamera()
ResetCamera ==
    /\ cameraPosition' = [x |-> 250000, y |-> 300000, z |-> 250000]
    /\ cameraTarget' = 100000
    /\ ret' = [op |-> "resetCamera"]
    /\ UNCHANGED <<input, executionTrace, buildings, heap, live, spiralPath, timers,
                   closures, nCalls, stats, isAnimating, animationsEnabled, nToggles,
                   toggleText>>

Next ==
    \/ \E codeTrace \in VisTexts : Visualize(codeTrace)
    \/ Fire
    \/ Tick
    \/ ToggleAnimation
    \/ ResetCamera

Spec == Init /\ [][Next]_vars

\* CodeParser.parse applied to one input text
InitParse ==
    /\ input \in ParseInputs
    /\ ret = [op |-> "none"]
    /\ executionTrace = <<>>
    /\ buildings = <<>>
    /\ heap = <<>>
    /\ live = {}
    /\ spiralPath = <<>>
    /\ timers = {}
    /\ closures = <<>>
    /\ nCalls = 0
    /\ cameraTarget = 100000
    /\ stats = ""
    /\ InitControls

ParseCall ==
    /\ ret.op = "none"
    /\ executionTrace' = Parse(input)
    /\ ret' = [op |-> "parse", val |-> Parse(input)]
    /\ UNCHANGED <<input, buildings, heap, live, spiralPath, timers, closures,
                   nCalls, cameraTarget, stats, controls>>

NextParse == ParseCall

SpecParse == InitParse /\ [][NextParse]_vars

\* CodeVisualizer.createSpiralPath applied to one step count
InitSpiral ==
    /\ input \in 1..MaxSpiralSteps
    /\ ret = [op |-> "none"]
    /\ executionTrace = <<>>
    /\ buildings = <<>>
    /\ heap = <<>>
    /\ live = {}
    /\ spiralPath = <<>>
    /\ timers = {}
    /\ closures = <<>>
    /\ nCalls = 0
    /\ cameraTarget = 100000
    /\ stats = ""
    /\ InitControls

SpiralCall ==
    /\ ret.op = "none"
    /\ spiralPath' = CreateSpiralPath(input)
    /\ live' = live \cup {PathRef(0)}
    /\ ret' = [op |-> "createSpiralPath", val |-> CreateSpiralPath(input)]
    /\ UNCHANGED <<input, executionTrace, buildings, heap, timers, closures,
                   nCalls, cameraTarget, stats, controls>>

NextSpiral == SpiralCall

SpecSpiral == InitSpiral /\ [][NextSpiral]_vars

\* one visualize call on one input text, and its staggered creations
InitOneCall ==
    /\ input \in VisTexts
    /\ ret = [op |-> "none"]
    /\ executionTrace = <<>>
    /\ buildings = <<>>
    /\ heap = <<>>
    /\ live = {}
    /\ spiralPath = <<>>
    /\ timers = {}
    /\ closures = <<>>
    /\ nCalls = 0
    /\ cameraTarget = 100000
    /\ stats = ""
    /\ InitControls

VisualizeInput ==
    /\ nCalls = 0
    /\ Visualize(input)

NextOneCall ==
    \/ VisualizeInput
    \/ Fire
    \/ Tick

SpecOneCall == InitOneCall /\ [][NextOneCall]_vars

\* the page's three buttons: one visualize call and its staggered creations,
\* interleaved with clicks on the toggle and reset buttons
NextControls ==
    \/ VisualizeInput
    \/ Fire
    \/ Tick
    \/ ToggleAnimation
    \/ ResetCamera

SpecControls == InitOneCall /\ [][NextControls]_vars

\* types given to getShapeProfile next to CALL: the six other known types,
\* the DEFAULT key itself and types the table has no entry for
OtherTypes == {"RETURN", "LOOP", "IF", "ELSE", "DECL", "ASSIGN",
               "DEFAULT", "zz", "", "constructor"}

\* the four Math.random() draws of one createTrapezoidMesh call
Draws == [uh : 0..(RandDen - 1), utw : 0..(RandDen - 1),
          ubw : 0..(RandDen - 1), ud : 0..(RandDen - 1)]

\* CodeVisualizer.createTrapezoidMesh applied to the profile of CALL and to
\* the profile of one other type, each with its own draws
InitMesh ==
    /\ input \in [type : OtherTypes, call : Draws, other : Draws]
    /\ ret = [op |-> "none"]
    /\ executionTrace = <<>>
    /\ buildings = <<>>
    /\ heap = <<>>
    /\ live = {}
    /\ spiralPath = <<>>
    /\ timers = {}
    /\ closures = <<>>
    /\ nCalls = 0
    /\ cameraTarget = 100000
    /\ stats = ""
    /\ InitControls

MeshCall ==
    /\ ret.op = "none"
    /\ ret' = [op |-> "createTrapezoidMesh",
               call |-> CreateTrapezoidMesh(GetShapeProfile("CALL"), input.call.uh,
                            input.call.utw, input.call.ubw, input.call.ud),
               other |-> CreateTrapezoidMesh(GetShapeProfile(input.type), input.other.uh,
                            input.other.utw, input.other.ubw, input.other.ud)]
    /\ UNCHANGED <<input, executionTrace, buildings, heap, live, spiralPath, timers,
                   closures, nCalls, cameraTarget, stats, controls>>

NextMesh == MeshCall

SpecMesh == InitMesh /\ [][NextMesh]_vars

(***************************************************************************)
(* Properties of CodeParser.parse (checked under SpecParse).               *)
(***************************************************************************)
Parsed == ret.op = "parse"

\* the number of lines of a text: its newline characters plus one
NumLines(text) == Cardinality({i \in 1..Len(text) : Ch(text, i) = "\n"}) + 1

\* the record at position k (1-based here) carries step = k - 1
StepsIndexed(trace) == \A k \in 1..Len(trace) : trace[k].step = k - 1

\* C1 as stated: for every input text with N lines parse returns exactly N
\* Step records, the k-th with step = k, also for texts that begin or end
\* with blank lines.
C1_OneStepPerLine ==
    Parsed => /\ Len(ret.val) = NumLines(input)
              /\ StepsIndexed(ret.val)

\* newline characters strictly between the first and the last character
\* that is not whitespace
InnerNewlines(text) ==
    LET a == FirstNonWs(text, 1)
        b == LastNonWs(text, Len(text))
    IN Cardinality({i \in a..b : Ch(text, i) = "\n"})

\* C1 amended: parse returns one Step record per line of the text with its
\* leading and trailing whitespace (blank lines included) removed, one
\* record for an empty or all-whitespace text, the k-th with step = k and
\* the records are what the parser keeps as executionTrace; a text of N
\* lines with no whitespace at either end gives exactly N records.
C1_OneStepPerTrimmedLine ==
    Parsed => /\ Len(ret.val) = InnerNewlines(input) + 1
              /\ StepsIndexed(ret.val)
              /\ ret.val = executionTrace
              /\ (Trim(input) = input => Len(ret.val) = NumLines(input))

\* a text that begins with a blank line was parsed into several records
C1_Witness ==
    /\ Parsed
    /\ Len(input) > 0 /\ Ch(input, 1) = "\n"
    /\ Len(ret.val) >= 2

\* the fields of the line a Step was parsed from
FieldsOf(step) == Split(step.raw, "|")

\* C2 as stated: a line with fewer than six fields yields a Step whose
\* missing string fields (name, value, address) are the empty string and
\* whose missing numeric fields (line, depth) are 0.
C2_MissingFieldsDefault ==
    Parsed => \A k \in 1..Len(ret.val) :
        LET s == ret.val[k]
            n == Len(FieldsOf(s))
        IN /\ (n < 2 => s.name = JStr(""))
           /\ (n < 3 => s.value = JStr(""))
           /\ (n < 4 => s.address = JStr(""))
           /\ (n < 5 => s.line = 0)
           /\ (n < 6 => s.depth = 0)

DecDigits == "0123456789"
HexDigits == "0123456789abcdef"
HexDigitsUpper == "0123456789ABCDEF"

IsDigitIn(c, digits) == \E i \in 1..Len(digits) : Ch(digits, i) = c

\* value of a text made of digits only, read from its last digit
RECURSIVE DigitsValue(_, _, _)
DigitsValue(s, digits, upper) ==
    IF Len(s) = 0 THEN 0
    ELSE LET c == Ch(s, Len(s))
             d == CHOOSE i \in 1..Len(digits) : Ch(digits, i) = c \/ Ch(upper, i) = c
         IN Len(digits) * DigitsValue(SubSeq(s, 1, Len(s) - 1), digits, upper) + (d - 1)

\* the longest run of digits a text begins with
DigitRun(s, digits, upper) ==
    LET ends == {e \in 0..Len(s) :
                    \A i \in 1..e : IsDigitIn(Ch(s, i), digits) \/ IsDigitIn(Ch(s, i), upper)}
    IN SubSeq(s, 1, CHOOSE e \in ends : \A f \in ends : f <= e)

\* a field text without leading whitespace and sign
Unsigned(s) ==
    LET t == SubSeq(s, FirstNonWs(s, 1), Len(s))
    IN IF Len(t) > 0 /\ Ch(t, 1) \in {"+", "-"} THEN SubSeq(t, 2, Len(t)) ELSE t

Negative(s) ==
    LET t == SubSeq(s, FirstNonWs(s, 1), Len(s))
    IN Len(t) > 0 /\ Ch(t, 1) = "-"

StartsWithDigit(s) == Len(s) > 0 /\ IsDigitIn(Ch(s, 1), DecDigits)

HasHexPrefix(s) == Len(s) >= 2 /\ SubSeq(s, 1, 2) \in {"0x", "0X"}

\* an integer literal: optional sign, then decimal digits only, or a 0x
\* prefix and hexadecimal digits only (surrounding whitespace allowed)
IsIntLiteral(s) ==
    LET b == Unsigned(Trim(s))
    IN IF HasHexPrefix(b)
       THEN Len(b) > 2 /\ DigitRun(SubSeq(b, 3, Len(b)), HexDigits, HexDigitsUpper)
                              = SubSeq(b, 3, Len(b))
       ELSE Len(b) > 0 /\ DigitRun(b, DecDigits, DecDigits) = b

\* C3 as stated: line and depth are integers, and 0 whenever the field text
\* is missing or is not an integer literal (empty, alphabetic, digits
\* followed by other characters).
C3_NonNumericIsZero ==
    Parsed => \A k \in 1..Len(ret.val) :
        LET s == ret.val[k]
            f == FieldsOf(s)
        IN /\ s.line \in Int /\ s.depth \in Int
           /\ (Len(f) < 5 \/ ~IsIntLiteral(f[5]) => s.line = 0)
           /\ (Len(f) < 6 \/ ~IsIntLiteral(f[6]) => s.depth = 0)

\* the integer a field text begins with: after leading whitespace and an
\* optional sign, the hexadecimal digits after a 0x prefix, else the
\* leading decimal digits; 0 when there are none
LeadingInteger(s) ==
    LET b == Unsigned(s)
        mag == IF HasHexPrefix(b)
               THEN DigitsValue(DigitRun(SubSeq(b, 3, Len(b)), HexDigits, HexDigitsUpper),
                                HexDigits, HexDigitsUpper)
               ELSE DigitsValue(DigitRun(b, DecDigits, DecDigits), DecDigits, DecDigits)
    IN IF Negative(s) THEN 0 - mag ELSE mag

\* C3 amended: line and depth are integers; each is 0 when its field is
\* missing or does not begin (after whitespace and an optional sign) with a
\* digit, and otherwise is the integer the field text begins with, so
\* digits followed by other characters give the leading integer, not 0.
C3_LeadingIntegerOrZero ==
    Parsed => \A k \in 1..Len(ret.val) :
        LET s == ret.val[k]
            f == FieldsOf(s)
        IN /\ s.line \in Int /\ s.depth \in Int
           /\ s.line = (IF Len(f) < 5 THEN 0 ELSE LeadingInteger(f[5]))
           /\ s.depth = (IF Len(f) < 6 THEN 0 ELSE LeadingInteger(f[6]))
           /\ (Len(f) >= 5 /\ ~StartsWithDigit(Unsigned(f[5])) => s.line = 0)
           /\ (Len(f) >= 6 /\ ~StartsWithDigit(Unsigned(f[6])) => s.depth = 0)

\* a line whose line field is digits followed by letters was parsed to 12,
\* and its alphabetic depth field to 0
C3_Witness ==
    /\ Parsed
    /\ \E k \in 1..Len(ret.val) :
          /\ Len(FieldsOf(ret.val[k])) >= 6
          /\ FieldsOf(ret.val[k])[5] = "12abc" /\ ret.val[k].line = 12
          /\ FieldsOf(ret.val[k])[6] = "x" /\ ret.val[k].depth = 0

\* the types of the example trace, as documented
ExampleTypes ==
    <<"CALL", "DECL">> \o
    <<"LOOP", "DECL", "ASSIGN">> \o <<"LOOP", "DECL", "ASSIGN">> \o
    <<"LOOP", "DECL", "ASSIGN">> \o <<"LOOP", "DECL", "ASSIGN">> \o
    <<"LOOP", "DECL", "ASSIGN">> \o <<"RETURN">>

\* C9: parsing the example trace yields 18 Step records, as many as it has
\* lines, with types CALL, DECL, five times LOOP, DECL, ASSIGN, then
\* RETURN; the first is a CALL and the last a RETURN.
C9_ExampleTraceTypes ==
    (Parsed /\ input = GetExampleTrace) =>
        /\ Len(ret.val) = 18
        /\ Len(ret.val) = NumLines(GetExampleTrace)
        /\ [k \in 1..Len(ret.val) |-> ret.val[k].type] = ExampleTypes
        /\ ret.val[1].type = "CALL"
        /\ ret.val[Len(ret.val)].type = "RETURN"

\* the example trace was parsed
C9_Witness ==
    /\ Parsed /\ input = GetExampleTrace
    /\ Len(ret.val) = 18 /\ ret.val[18].type = "RETURN"

(***************************************************************************)
(* Properties of createSpiralPath (checked under SpecSpiral).              *)
(***************************************************************************)
SpiralMade == ret.op = "createSpiralPath"

\* C7: the N points of createSpiralPath(N) have strictly decreasing y;
\* point 0 has the maximum height (N-1)*heightPerStep, point N-1 the
\* minimum, 0.
C7_SpiralDescends ==
    SpiralMade =>
        LET N == input
            pts == ret.val
        IN /\ Len(pts) = N /\ spiralPath = pts
           /\ \A i \in 1..(N - 1) : pts[i].y > pts[i + 1].y
           /\ pts[1].y = (N - 1) * 5000
           /\ pts[N].y = 0
           /\ \A i \in 1..N : pts[1].y >= pts[i].y /\ pts[i].y >= pts[N].y

\* a spiral of several points, its first point above its last
C7_Witness ==
    /\ SpiralMade
    /\ Len(spiralPath) >= 3
    /\ spiralPath[1].y > spiralPath[Len(spiralPath)].y

\* squared distance of a point from the spiral's axis, in hundredths
AxisDist2(pt) ==
    (pt.x \div 100) * (pt.x \div 100) + (pt.z \div 100) * (pt.z \div 100)

\* C8: point i is computed from angle = i * 0.3 and radius = 2 + i * 0.3
\* alone (its height from i and N alone), whatever the other points are,
\* and the radius grows strictly with i.
C8_SpiralClosedForm ==
    SpiralMade =>
        LET N == input
            pts == ret.val
        IN /\ Len(pts) = N
           /\ \A i \in 0..(N - 1) :
                 /\ pts[i + 1].x = (CosMilli(3 * i) * (20000 + 3000 * i)) \div 1000
                 /\ pts[i + 1].z = (SinMilli(3 * i) * (20000 + 3000 * i)) \div 1000
                 /\ pts[i + 1].y = (N - 1 - i) * 5000
           /\ \A i \in 1..(N - 1) : AxisDist2(pts[i]) < AxisDist2(pts[i + 1])

\* a spiral whose third point sits at angle 0.6 rad on radius 2.6
C8_Witness ==
    /\ SpiralMade
    /\ Len(spiralPath) >= 3
    /\ spiralPath[3].x = 21450 /\ spiralPath[3].z = 14690

(***************************************************************************)
(* Properties of visualize and its staggered creations (checked under     *)
(* Spec; C6 under SpecOneCall).                                            *)
(***************************************************************************)
KnownTypes == {"CALL", "DECL", "LOOP", "ASSIGN", "RETURN", "IF", "ELSE"}

\* every creation callback of the newest visualize call has run
NewestDone == nCalls >= 1 /\ ~(\E t \in timers : t.call = nCalls)

\* no step visualized so far has a type naming an Object.prototype property
PlainTypes ==
    \A c \in 1..nCalls : \A k \in 1..Len(closures[c].trace) :
        closures[c].trace[k].type \notin ObjectPrototypeKeys

\* C4 as stated: every type that is not one of the seven known types gets
\* the DEFAULT colour and the DEFAULT profile, and visualize still makes a
\* building for the step.
C4_UnknownTypesDefault ==
    /\ \A ref \in DOMAIN heap :
          heap[ref].type \notin KnownTypes =>
              /\ heap[ref].color = Colors["DEFAULT"]
              /\ GetShapeProfile(heap[ref].type) = Profiles["DEFAULT"]
    /\ \A c \in 1..nCalls : \A k \in 1..Len(closures[c].trace) :
          \/ <<c, k - 1>> \in DOMAIN heap
          \/ \E t \in timers : t.call = c /\ t.index = k - 1

\* C5 as stated: once the newest call's creations have all run, the
\* displayed list holds only buildings of the newest trace and every
\* building made for an earlier trace is disposed, also when visualize was
\* called while timers of the previous call were pending.  (Stated for
\* traces of plain types, which the colour and profile lookups handle as
\* documented.)
C5_OnlyNewestDisplayed ==
    (NewestDone /\ PlainTypes) =>
        /\ \A k \in 1..Len(buildings) : buildings[k][1] = nCalls
        /\ \A ref \in DOMAIN heap : ref[1] < nCalls => ref \notin live

\* indices below i of the CALL steps of a trace
CallsBefore(trace, i) == {j \in 0..(i - 1) : trace[j + 1].type = "CALL"}

\* C6: within one visualize call the vertical offset of the building of
\* step i is 0 when step i is a CALL or no CALL precedes it, and otherwise
\* 0.3 times the generated height of the latest CALL step before i.
C6_StackOffset ==
    \A ref \in DOMAIN heap :
        LET c == ref[1]
            i == ref[2]
            cl == closures[c]
            offset == heap[ref].pos.y - cl.pathPoints[i + 1].y
            before == CallsBefore(cl.trace, i)
        IN /\ heap[ref].type = cl.trace[i + 1].type
           /\ IF heap[ref].type = "CALL" \/ before = {}
              THEN offset = 0
              ELSE LET j == CHOOSE x \in before : \A y \in before : y <= x
                   IN /\ <<c, j>> \in DOMAIN heap
                      /\ offset = (3 * heap[<<c, j>>].height.num) \div 10

\* a DECL built after two CALLs of different heights, the second CALL
\* itself not offset
C6_Witness ==
    \E c \in 1..nCalls :
        /\ {<<c, 0>>, <<c, 1>>, <<c, 2>>} \subseteq DOMAIN heap
        /\ heap[<<c, 0>>].type = "CALL" /\ heap[<<c, 1>>].type = "CALL"
        /\ heap[<<c, 2>>].type = "DECL"
        /\ heap[<<c, 0>>].height # heap[<<c, 1>>].height
        /\ heap[<<c, 1>>].pos.y = closures[c].pathPoints[2].y
        /\ heap[<<c, 2>>].pos.y > closures[c].pathPoints[3].y

\* C10 as stated: for a visualize call not followed by another, the spiral
\* has N points and, once the creations have all run, the displayed list
\* holds exactly N buildings, the k-th with index k, the type of step k and
\* the horizontal position of spiral point k.  (Stated for traces of plain
\* types, as C5.)
C10_DisplayedMatchesTrace ==
    (NewestDone /\ PlainTypes) =>
        LET N == Len(executionTrace)
        IN /\ Len(spiralPath) = N
           /\ Len(buildings) = N
           /\ \A k \in 1..N :
                 LET b == heap[buildings[k]]
                 IN /\ b.data = k - 1
                    /\ b.type = executionTrace[k].type
                    /\ b.pos.x = spiralPath[k].x
                    /\ b.pos.z = spiralPath[k].z

(***************************************************************************)
(* Properties of the shape profiles (checked under SpecMesh).              *)
(***************************************************************************)
\* x >= y on JavaScript numbers: false when either side is NaN
GeqNum(x, y) == x # NaN /\ y # NaN /\ x.num >= y.num

\* the wider of the top and bottom faces of a mesh
WidestFace(mesh) ==
    IF mesh.trapTopWidth = NaN \/ mesh.trapBottomWidth = NaN THEN NaN
    ELSE IF mesh.trapTopWidth.num >= mesh.trapBottomWidth.num THEN mesh.trapTopWidth
    ELSE mesh.trapBottomWidth

\* the documented hierarchy, biggest first
Hierarchy == <<"CALL", "RETURN", "LOOP", "IF", "ELSE", "DECL", "ASSIGN">>

HeightRangesOrdered ==
    \A k \in 1..(Len(Hierarchy) - 1) :
        /\ Profiles[Hierarchy[k]].heightMin >= Profiles[Hierarchy[k + 1]].heightMin
        /\ Profiles[Hierarchy[k]].heightMax >= Profiles[Hierarchy[k + 1]].heightMax

\* C11 as stated: whatever the draws, the height and the bottom width of a
\* CALL mesh are at least the height and the widest face width of a mesh of
\* any other type, known or unknown, and the height ranges of the seven
\* known types are ordered CALL >= RETURN >= LOOP >= IF >= ELSE >= DECL >=
\* ASSIGN in their minimum and in their maximum.
C11_CallTallestWidest ==
    /\ HeightRangesOrdered
    /\ ret.op = "createTrapezoidMesh" =>
          /\ GeqNum(ret.call.trapHeight, ret.other.trapHeight)
          /\ GeqNum(ret.call.trapBottomWidth, WidestFace(ret.other))

\* the same with the types naming an Object.prototype property left out
C11_PlainTypes ==
    /\ HeightRangesOrdered
    /\ (ret.op = "createTrapezoidMesh" /\ input.type \notin ObjectPrototypeKeys) =>
          /\ GeqNum(ret.call.trapHeight, ret.other.trapHeight)
          /\ GeqNum(ret.call.trapBottomWidth, WidestFace(ret.other))

(***************************************************************************)
(* The cap of a building (checked under SpecOneCall).                      *)
(***************************************************************************)
\* C12 as stated: the cap of every building created sits on top of it, at
\* cap y = building y + building height + capHeight / 2, whether or not the
\* step is a CALL and whether or not a parent CALL height is known.  (The
\* cap's position is a clone of the building's, so x and z are the
\* building's.)
C12_CapOnTop ==
    \A ref \in DOMAIN heap :
        heap[ref].capY = AddNum(heap[ref].height, heap[ref].pos.y + CapHeight \div 2)

(***************************************************************************)
(* The animation switch (checked under SpecControls).                      *)
(***************************************************************************)
Even(k) == k % 2 = 0

\* the switch in every state: animating exactly when the number of toggle
\* calls so far is even, scene.animationsEnabled equal to isAnimating, and
\* the value returned by the latest toggle call (kept in ret while it is the
\* latest operation, and shown by the button label ever after) equal to both
ToggleState ==
    /\ isAnimating = Even(nToggles)
    /\ animationsEnabled = isAnimating
    /\ ret.op = "toggleAnimation" =>
          (ret.val = isAnimating /\ ret.val = animationsEnabled)
    /\ nToggles >= 1 =>
          toggleText = (IF isAnimating THEN "Pause Animation" ELSE "Resume Animation")

\* a toggle call flips isAnimating and leaves the displayed-objects list,
\* the objects and what is disposed unchanged
ToggleStep ==
    nToggles' # nToggles =>
        /\ nToggles' = nToggles + 1
        /\ isAnimating' = ~isAnimating
        /\ buildings' = buildings
        /\ heap' = heap
        /\ live' = live

\* C13: after init and any interleaving of toggleAnimation, visualize (with
\* its creations) and resetCamera, the value returned by the latest
\* toggleAnimation equals isAnimating and scene.animationsEnabled; the
\* switch starts as animating and each call flips it, so after k calls it is
\* animating exactly when k is even; and toggleAnimation leaves the
\* displayed-objects list unchanged.
C13_ToggleAnimation == [](ToggleState) /\ [][ToggleStep]_vars

\* two toggles, the second one the latest operation, made around a
\* visualize call one of whose buildings is displayed and after a camera
\* reset: paused by the first, animating again after the second
C13_Witness ==
    /\ nToggles = 2
    /\ ret.op = "toggleAnimation" /\ ret.val = TRUE
    /\ isAnimating /\ animationsEnabled
    /\ toggleText = "Pause Animation"
    /\ Len(buildings) >= 1
    /\ cameraPosition.x = 250000

====
